---- MODULE Spec2Model ----
(***************************************************************************)
(* Model of src/app.py: a Litestar to-do service over one SQLite table     *)
(* todo_items(title PRIMARY KEY, done), with the engine's lifecycle bound  *)
(* to the lifespan manager db_connection.                                  *)
(*                                                                         *)
(* The database file is `table`, the bag of the stored rows: no query of   *)
(* the program has an ORDER BY, so a table and a result list are bags.     *)
(* A write transaction (BEGIN .. flush .. COMMIT) is one atomic step:      *)
(* SQLite serializes writers.  update_item awaits between its SELECT and   *)
(* the flush at commit, so it is two steps per request, and other requests *)
(* may run in between; `inflight` holds the objects such requests loaded.  *)
(* The SELECT of the lookup opens no database transaction (the sqlite3     *)
(* driver begins one at the first INSERT or UPDATE), so it holds no lock   *)
(* until the flush.  Faults of the storage under a request (a lock wait    *)
(* that times out, a lost file) are not modelled; under the startup they   *)
(* are the input storageFails.                                             *)
(***************************************************************************)
EXTENDS Integers, Sequences, FiniteSets, Bags

\* ---------------------------------------------------------------- bounds
MaxTitle == 3
MaxInFlight == 2

Titles == 1..MaxTitle

\* ------------------------------------------------------- program constants
HTTP_200_OK == 200
HTTP_201_CREATED == 201
HTTP_404_NOT_FOUND == 404
HTTP_409_CONFLICT == 409
HTTP_500_INTERNAL_SERVER_ERROR == 500

\* `done: bool | None = None`: an optional value is a sequence of length <= 1
None == << >>
Some(v) == << v >>
DoneFilters == {None, Some(TRUE), Some(FALSE)}

\* TodoType: the request body / the serialized item
TodoType == [title : Titles, done : BOOLEAN]

VARIABLES
    table,        \* rows of todo_items in the database file, each <<title, done>>
    tableExists,  \* whether the table todo_items exists in the file
    engine,       \* app.state.engine: "None" or "engine"
    life,         \* db_connection: "stopped" or "running" (suspended at yield)
    exitPath,     \* how the last run of db_connection ended
    disposals,    \* calls of engine.dispose() in the current or last run
    fault,        \* whether the storage failed under the last startup
    inflight,     \* the objects loaded by the update_item requests in flight
    resp          \* the response the last step sent, if it sent one

vars == << table, tableExists, engine, life, exitPath, disposals, fault, inflight, resp >>

\* ------------------------------------------------------------ the table
Row(title, done) == << title, done >>

\* class TodoItem: the ORM object of a row
TodoItem(row) == [title |-> row[1], done |-> row[2]]

serialize_todo(todo) == [title |-> todo.title, done |-> todo.done]

\* the rows a column of type str and a column of type bool can hold
Rows == Titles \X BOOLEAN

\* the rows of t that satisfy the WHERE clause, given as the set of the
\* rows that satisfy it
Select(t, where) ==
    [row \in BagToSet(t) \cap where |-> t[row]]

\* a table without the primary key: nothing is enforced
PrimaryKey_unenforced(t) == TRUE

\* title: mapped_column(primary_key=True): the unique index of the table
PrimaryKey(t) ==
    \A r1, r2 \in BagToSet(t) :
        /\ CopiesIn(r1, t) = 1
        /\ r1[1] = r2[1] => r1 = r2

\* an insert that replaces the row of the same title (an upsert)
Insert_or_replace(t, todo) ==
    LET Kept == {row \in Rows : row[1] # todo.title}
    IN  [error |-> "None",
         table |-> Select(t, Kept) (+) SetToBag({Row(todo.title, todo.done)})]

\* an insert that stores the column default instead of the given done
Insert_default_done(t, todo) ==
    LET t2 == t (+) SetToBag({Row(todo.title, FALSE)})
    IN  IF PrimaryKey(t2)
        THEN [error |-> "None", table |-> t2]
        ELSE [error |-> "IntegrityError", table |-> t]

\* INSERT INTO todo_items (title, done) VALUES (?, ?)
Insert(t, todo) ==
    LET t2 == t (+) SetToBag({Row(todo.title, todo.done)})
    IN  IF PrimaryKey(t2)
        THEN [error |-> "None", table |-> t2]
        ELSE [error |-> "IntegrityError", table |-> t]

\* an update that never writes the title column
Update_done_only(t, pk, setTitle, setDone, new) ==
    LET TitleIs == {row \in Rows : row[1] = pk}
        Others == {row \in Rows : row[1] # pk}
        NewRow(row) == Row(row[1], new.done)
        matched == Select(t, TitleIs)
    IN  [error |-> "None",
         table |-> Select(t, Others) (+) BagOfAll(NewRow, matched),
         rowcount |-> BagCardinality(matched)]

\* an update whose rowcount counts the rows it changed, not those it matched
Update_changed_rowcount(t, pk, setTitle, setDone, new) ==
    LET TitleIs == {row \in Rows : row[1] = pk}
        Others == {row \in Rows : row[1] # pk}
        NewRow(row) == Row(IF setTitle THEN new.title ELSE row[1],
                           IF setDone THEN new.done ELSE row[2])
        Changed == {row \in Rows : row[1] = pk /\ NewRow(row) # row}
        matched == Select(t, TitleIs)
        t2 == Select(t, Others) (+) BagOfAll(NewRow, matched)
    IN  IF PrimaryKey(t2)
        THEN [error |-> "None", table |-> t2,
              rowcount |-> BagCardinality(Select(t, Changed))]
        ELSE [error |-> "IntegrityError", table |-> t, rowcount |-> 0]

\* UPDATE OR REPLACE: the rows in the way of the new title are deleted
Update_or_replace(t, pk, setTitle, setDone, new) ==
    LET TitleIs == {row \in Rows : row[1] = pk}
        Others == {row \in Rows : row[1] # pk /\ (~setTitle \/ row[1] # new.title)}
        NewRow(row) == Row(IF setTitle THEN new.title ELSE row[1],
                           IF setDone THEN new.done ELSE row[2])
        matched == Select(t, TitleIs)
    IN  [error |-> "None",
         table |-> Select(t, Others) (+) BagOfAll(NewRow, matched),
         rowcount |-> BagCardinality(matched)]

\* UPDATE todo_items SET [title=?][, done=?] WHERE title = pk
\* (the unit of work sets only the columns whose value changed)
Update(t, pk, setTitle, setDone, new) ==
    LET TitleIs == {row \in Rows : row[1] = pk}
        Others == {row \in Rows : row[1] # pk}
        NewRow(row) == Row(IF setTitle THEN new.title ELSE row[1],
                           IF setDone THEN new.done ELSE row[2])
        matched == Select(t, TitleIs)
        t2 == Select(t, Others) (+) BagOfAll(NewRow, matched)
    IN  IF PrimaryKey(t2)
        THEN [error |-> "None", table |-> t2, rowcount |-> BagCardinality(matched)]
        ELSE [error |-> "IntegrityError", table |-> t, rowcount |-> 0]

\* ------------------------------------------------------------ responses
NoResponse == [op |-> "none", status |-> 0, body |-> << >>, arg |-> << >>]

Response(op, arg, status, body) ==
    [op |-> op, status |-> status, body |-> body, arg |-> arg]

NotFoundDetail(todo_name) == << "TODO not found", todo_name >>
ConflictDetail(title) == << "TODO already exists", title >>
ServerFaultDetail == << "Internal Server Error" >>

\* ------------------------------------------------------------------ Init
Init ==
    /\ table = EmptyBag
    /\ tableExists = FALSE
    /\ engine = "None"
    /\ life = "stopped"
    /\ exitPath = "none"
    /\ disposals = 0
    /\ fault = FALSE
    /\ inflight = EmptyBag
    /\ resp = NoResponse

\* ------------------------------------------------------------- lifespan
\* drop_all before create_all: the table is made anew on every startup
create_all_recreate(exists, t) ==
    [error |-> "None", table |-> EmptyBag]

\* Base.metadata.create_all: CREATE TABLE only when the table is absent
create_all(exists, t) ==
    IF exists THEN [error |-> "None", table |-> t]
    ELSE [error |-> "None", table |-> EmptyBag]

\* db_connection up to the yield (lines 42-61); storageFails is the
\* environment: engine.begin() or the DDL raising
Startup(storageFails) ==
    /\ life = "stopped"
    /\ engine' = "engine"
    /\ disposals' = 0
    /\ fault' = storageFails
    /\ resp' = NoResponse
    /\ inflight' = inflight
    /\ LET made == create_all(tableExists, table)
       IN  IF storageFails \/ made.error # "None"
           THEN /\ life' = "stopped"
                /\ exitPath' = "startup_exception"
                /\ UNCHANGED << table, tableExists >>
           ELSE /\ life' = "running"
                /\ exitPath' = "none"
                /\ table' = made.table
                /\ tableExists' = TRUE

\* the finally clause (lines 62-64) when the server shuts down
Shutdown ==
    /\ life = "running"
    /\ inflight = EmptyBag
    /\ life' = "stopped"
    /\ exitPath' = "normal"
    /\ disposals' = disposals + 1
    /\ resp' = NoResponse
    /\ UNCHANGED << table, tableExists, engine, fault, inflight >>

\* the finally clause when an exception is thrown in at the yield; the
\* requests in flight are abandoned, their transactions never commit
ServerException ==
    /\ life = "running"
    /\ life' = "stopped"
    /\ exitPath' = "server_exception"
    /\ disposals' = disposals + 1
    /\ inflight' = EmptyBag
    /\ resp' = NoResponse
    /\ UNCHANGED << table, tableExists, engine, fault >>

\* a new process: app.state starts without an engine
NewProcess ==
    /\ life = "stopped"
    /\ engine = "engine"
    /\ engine' = "None"
    /\ UNCHANGED << table, tableExists, life, exitPath, disposals, fault, inflight, resp >>

\* ------------------------------------------------------------- handlers
\* `if done:` in place of `if done is not None:`
get_todo_list_truthy(done, t) ==
    LET All == {row \in Rows : TRUE}
        DoneIs == {row \in Rows : row[2] = done[1]}
    IN  BagOfAll(TodoItem, IF done = Some(TRUE) THEN Select(t, DoneIs)
                           ELSE Select(t, All))

\* get_todo_list: SELECT ... [WHERE done IS ?]
get_todo_list(done, t) ==
    LET All == {row \in Rows : TRUE}
        DoneIs == {row \in Rows : row[2] = done[1]}
    IN  BagOfAll(TodoItem, IF done # None THEN Select(t, DoneIs)
                           ELSE Select(t, All))

\* [serialize_todo(todo) for todo in ...]
TodoCollection(todos) == BagOfAll(serialize_todo, todos)

\* GET / : the table it leaves and the response
get_list_run(done, t) ==
    [table |-> t,
     resp |-> Response("get_list", done, HTTP_200_OK,
                       TodoCollection(get_todo_list(done, t)))]

\* GET /
get_list(done) ==
    /\ life = "running"
    /\ table' = get_list_run(done, table).table
    /\ resp' = get_list_run(done, table).resp
    /\ UNCHANGED << tableExists, engine, life, exitPath, disposals, fault, inflight >>

\* POST / : the table it leaves and the response
add_item_run(data, t) ==
    LET new_todo == [title |-> data.title, done |-> data.done]
        res == Insert(t, new_todo)
    IN  IF res.error = "IntegrityError"
        THEN [table |-> t,
              resp |-> Response("add_item", data, HTTP_409_CONFLICT,
                                ConflictDetail(new_todo.title))]
        ELSE [table |-> res.table,
              resp |-> Response("add_item", data, HTTP_201_CREATED,
                                serialize_todo(new_todo))]

\* POST /
add_item(data) ==
    /\ life = "running"
    /\ table' = add_item_run(data, table).table
    /\ resp' = add_item_run(data, table).resp
    /\ UNCHANGED << tableExists, engine, life, exitPath, disposals, fault, inflight >>

\* result.scalar_one_or_none(): no row gives None, and the caller's
\* assignment to its attributes fails
get_todo_by_title_or_none(todo_name, t) ==
    LET TitleIs == {row \in Rows : row[1] = todo_name}
        rows == Select(t, TitleIs)
    IN  IF BagCardinality(rows) = 0 THEN [error |-> "AttributeError"]
        ELSE IF BagCardinality(rows) > 1 THEN [error |-> "MultipleResultsFound"]
        ELSE [error |-> "None", todo |-> TodoItem(CHOOSE row \in BagToSet(rows) : TRUE)]

\* get_todo_by_title: result.scalar_one()
get_todo_by_title(todo_name, t) ==
    LET TitleIs == {row \in Rows : row[1] = todo_name}
        rows == Select(t, TitleIs)
    IN  IF BagCardinality(rows) = 0 THEN [error |-> "NotFoundException"]
        ELSE IF BagCardinality(rows) > 1 THEN [error |-> "MultipleResultsFound"]
        ELSE [error |-> "None", todo |-> TodoItem(CHOOSE row \in BagToSet(rows) : TRUE)]

\* what a response to PUT records of its request: the path title and the
\* object the lookup loaded, if it loaded one
UpdateArg(item_title, loaded) == [item_title |-> item_title, loaded |-> loaded]

\* PUT /{item_title} up to the end of the lookup: the table it leaves and
\* the object loaded, or the response that ends the request
update_item_lookup_run(item_title, t) ==
    LET found == get_todo_by_title(item_title, t)
    IN  IF found.error = "NotFoundException"
        THEN [table |-> t, loaded |-> None,
              resp |-> Response("update_item", UpdateArg(item_title, None),
                                HTTP_404_NOT_FOUND, NotFoundDetail(item_title))]
        ELSE IF found.error # "None"
        THEN [table |-> t, loaded |-> None,
              resp |-> Response("update_item", UpdateArg(item_title, None),
                                HTTP_500_INTERNAL_SERVER_ERROR, ServerFaultDetail)]
        ELSE [table |-> t, loaded |-> Some(found.todo), resp |-> NoResponse]

\* PUT /{item_title}: up to the end of the lookup (lines 109-110); the body
\* `data` is first read at line 111 and is drawn there
update_item_lookup(item_title) ==
    /\ life = "running"
    /\ BagCardinality(inflight) < MaxInFlight
    /\ LET out == update_item_lookup_run(item_title, table)
       IN  /\ table' = out.table
           /\ resp' = out.resp
           /\ inflight' = IF out.loaded = None THEN inflight
                          ELSE inflight (+) SetToBag({out.loaded[1]})
    /\ UNCHANGED << tableExists, engine, life, exitPath, disposals, fault >>

\* the flush of the session at commit: what the unit of work sends for an
\* object loaded as `loaded` and now holding `todo_item`
Flush(t, loaded, todo_item) ==
    LET setTitle == todo_item.title # loaded.title
        setDone == todo_item.done # loaded.done
    IN  IF ~setTitle /\ ~setDone
        THEN [error |-> "None", table |-> t]
        ELSE LET res == Update(t, loaded.title, setTitle, setDone, todo_item)
             IN  IF res.error # "None" THEN [error |-> res.error, table |-> t]
                 ELSE IF res.rowcount # 1
                      THEN [error |-> "StaleDataError", table |-> t]
                      ELSE [error |-> "None", table |-> res.table]

\* PUT /{item_title} from the assignments on: the table it leaves and the
\* response
update_item_commit_run(loaded, data, t) ==
    LET todo_item == [title |-> data.title, done |-> data.done]
        res == Flush(t, loaded, todo_item)
    IN  IF res.error # "None"
        THEN [table |-> t,
              resp |-> Response("update_item", UpdateArg(loaded.title, Some(loaded)),
                                HTTP_500_INTERNAL_SERVER_ERROR, ServerFaultDetail)]
        ELSE [table |-> res.table,
              resp |-> Response("update_item", UpdateArg(loaded.title, Some(loaded)),
                                HTTP_200_OK, serialize_todo(todo_item))]

\* PUT /{item_title}: the assignments, the commit and the return
\* (lines 111-114)
update_item_commit(loaded, data) ==
    /\ life = "running"
    /\ BagIn(loaded, inflight)
    /\ table' = update_item_commit_run(loaded, data, table).table
    /\ resp' = update_item_commit_run(loaded, data, table).resp
    /\ inflight' = inflight (-) SetToBag({loaded})
    /\ UNCHANGED << tableExists, engine, life, exitPath, disposals, fault >>

Next ==
    \/ \E storageFails \in BOOLEAN : Startup(storageFails)
    \/ Shutdown
    \/ ServerException
    \/ NewProcess
    \/ \E done \in DoneFilters : get_list(done)
    \/ \E data \in TodoType : add_item(data)
    \/ \E item_title \in Titles : update_item_lookup(item_title)
    \/ \E loaded \in BagToSet(inflight), data \in TodoType :
          update_item_commit(loaded, data)

Spec == Init /\ [][Next]_vars

\* ------------------------------------------------------------ properties
HasTitle(t, title) == \E row \in BagToSet(t) : row[1] = title
RowOf(todo) == Row(todo.title, todo.done)
One(x) == SetToBag({x})
LifespanStep ==
    Shutdown \/ ServerException \/ NewProcess \/ \E f \in BOOLEAN : Startup(f)

\* C1: in every reachable state of todo_items no two rows share a title,
\* whatever the interleaving of add_item and update_item requests.
C1_UniqueTitles ==
    \A r1, r2 \in BagToSet(table) :
        /\ CopiesIn(r1, table) = 1
        /\ r1 # r2 => r1[1] # r2[1]

\* an update that renamed a row has committed while another update, which
\* looked its row up earlier, is still in flight, next to another row
C1_Witness ==
    /\ BagCardinality(table) >= 2
    /\ resp.op = "update_item"
    /\ resp.status = HTTP_200_OK
    /\ resp.body.title # resp.arg.item_title
    /\ inflight # EmptyBag

\* C2: add_item with a title that a stored row has answers 409 Conflict
\* naming the title and leaves the table exactly as it was, whatever the
\* done value it is called with.
C2_AddDuplicateConflicts ==
    life = "running" =>
        \A data \in TodoType :
            HasTitle(table, data.title) =>
                LET out == add_item_run(data, table)
                IN  /\ out.resp.status = HTTP_409_CONFLICT
                    /\ out.resp.body = ConflictDetail(data.title)
                    /\ out.table = table

\* a duplicate add with the other done value was refused; the row kept its own
C2_Witness ==
    /\ resp.op = "add_item"
    /\ resp.status = HTTP_409_CONFLICT
    /\ BagIn(Row(resp.arg.title, ~resp.arg.done), table)

\* C3: every run of db_connection that has ended has disposed the engine
\* exactly once, whichever way it ended.
C3_DisposedExactlyOnce ==
    exitPath # "none" => disposals = 1

\* C4: get_list answers 200 with exactly the rows that match the filter
\* (all rows without a filter), each once and serialized as {title, done},
\* and leaves the table unchanged; no match gives the empty list.
C4_ListMatchesFilter ==
    life = "running" =>
        \A done \in DoneFilters :
            LET out == get_list_run(done, table)
                Matches(row) == done = None \/ done = Some(row[2])
            IN  /\ out.resp.status = HTTP_200_OK
                /\ BagToSet(out.resp.body) \subseteq TodoType
                /\ \A todo \in TodoType :
                     CopiesIn(todo, out.resp.body) =
                        IF Matches(RowOf(todo)) THEN CopiesIn(RowOf(todo), table)
                        ELSE 0
                /\ (\A row \in BagToSet(table) : ~Matches(row))
                      => out.resp.body = EmptyBag
                /\ out.table = table

\* a filtered list of a table with both done values: some rows, not all
C4_Witness ==
    /\ resp.op = "get_list"
    /\ resp.arg = Some(FALSE)
    /\ BagCardinality(resp.body) >= 1
    /\ BagCardinality(resp.body) < BagCardinality(table)
    /\ \A todo \in BagToSet(resp.body) : ~todo.done /\ BagIn(RowOf(todo), table)

\* C5: update_item for a path title that no row has answers 404 naming the
\* title, loads nothing that a commit could write, and leaves the table
\* unchanged.
C5_UpdateMissingNotFound ==
    life = "running" =>
        \A item_title \in Titles :
            ~HasTitle(table, item_title) =>
                LET out == update_item_lookup_run(item_title, table)
                IN  /\ out.resp.status = HTTP_404_NOT_FOUND
                    /\ out.resp.body = NotFoundDetail(item_title)
                    /\ out.loaded = None
                    /\ out.table = table

\* an update of a missing title was refused while other rows are stored
C5_Witness ==
    /\ resp.op = "update_item"
    /\ resp.status = HTTP_404_NOT_FOUND
    /\ ~HasTitle(table, resp.arg.item_title)
    /\ BagCardinality(table) >= 1

\* C6: add_item with a title that no row has stores the one new row (title,
\* done), keeps every other row, and answers with the serialized item; the
\* unfiltered list then holds that item exactly once.
C6_AddCreatesOneRow ==
    life = "running" =>
        \A data \in TodoType :
            ~HasTitle(table, data.title) =>
                LET out == add_item_run(data, table)
                    item == [title |-> data.title, done |-> data.done]
                IN  /\ out.table = table (+) One(Row(data.title, data.done))
                    /\ out.resp.status \in {HTTP_200_OK, HTTP_201_CREATED}
                    /\ out.resp.body = item
                    /\ CopiesIn(item, get_list_run(None, out.table).resp.body) = 1

\* a done item was added to a table that held other rows
C6_Witness ==
    /\ resp.op = "add_item"
    /\ resp.status = HTTP_201_CREATED
    /\ resp.body.done
    /\ BagCardinality(table) >= 2
    /\ BagIn(Row(resp.body.title, TRUE), table)

C8_UpdateSameValues ==
    life = "running" =>
        \A loaded \in BagToSet(inflight), data \in TodoType :
            (data.title = loaded.title /\ BagIn(RowOf(data), table)) =>
                LET out == update_item_commit_run(loaded, data, table)
                    again == update_item_lookup_run(data.title, out.table)
                IN  /\ out.table = table
                    /\ out.resp.status = HTTP_200_OK
                    /\ out.resp.body = [title |-> data.title, done |-> data.done]
                    /\ again.loaded # None
                    /\ LET out2 == update_item_commit_run(again.loaded[1], data, again.table)
                       IN  /\ out2.table = out.table
                           /\ out2.resp.status = out.resp.status
                           /\ out2.resp.body = out.resp.body

\* an update with the values of the row as loaded and as stored answered 200
C8_Witness ==
    /\ resp.op = "update_item"
    /\ resp.status = HTTP_200_OK
    /\ resp.body = serialize_todo(resp.arg.loaded[1])
    /\ BagIn(RowOf(resp.body), table)

\* C9: no step of the lifespan changes the rows of an existing table, and
\* a startup that finds the table, the storage not failing, gets to serving.
C9_DataSurvivesRestart ==
    [][/\ (LifespanStep /\ tableExists) => (table' = table /\ tableExists')
       /\ (Startup(FALSE) /\ tableExists) => life' = "running"]_vars

\* serving again, after a shutdown, with the rows of an earlier run
C9_Witness ==
    /\ life = "running"
    /\ resp = NoResponse
    /\ inflight = EmptyBag
    /\ BagCardinality(table) >= 2

\* C10: update_item of a stored row with a body title that another row has
\* answers 500, neither 409 nor 404, and changes no row.
C10_RenameCollisionFaults ==
    life = "running" =>
        \A loaded \in BagToSet(inflight), data \in TodoType :
            (/\ HasTitle(table, loaded.title)
             /\ data.title # loaded.title
             /\ HasTitle(table, data.title)) =>
                LET out == update_item_commit_run(loaded, data, table)
                IN  /\ out.resp.status = HTTP_500_INTERNAL_SERVER_ERROR
                    /\ out.resp.status \notin {HTTP_404_NOT_FOUND, HTTP_409_CONFLICT}
                    /\ out.resp.body = ServerFaultDetail
                    /\ out.table = table

\* an update answered 500 although the row it loaded is stored: the title
\* it asked for was taken
C10_Witness ==
    /\ resp.op = "update_item"
    /\ resp.status = HTTP_500_INTERNAL_SERVER_ERROR
    /\ resp.arg.loaded # None
    /\ HasTitle(table, resp.arg.item_title)
    /\ BagCardinality(table) >= 2

====
